---------------------------- MODULE Spec2Model ----------------------------
(***************************************************************************)
(* Model of my_service.py: a small MQTT agent.  main() builds an           *)
(* MqttClient and calls run(); run() connects, starts the paho network     *)
(* thread and then loops forever: liveness check, regular_update, sleep.   *)
(* The network thread invokes on_connect / on_disconnect; SIGINT invokes   *)
(* signal_handler on the main thread.                                      *)
(*                                                                         *)
(* Strings are sequences of tokens, so that slicing (prefix[:-1]) and      *)
(* formatting (f'{prefix}/status', f'update:{counter}') are computed.      *)
(* Every call the program makes on the broker client is appended to        *)
(* `trace`, in program order.                                              *)
(***************************************************************************)
EXTENDS Integers, Sequences, FiniteSets, TLC

\* ------------------------------------------------------------- bounds
\* longest configured topic prefix that is enumerated
MaxPrefixLen == 2
\* number of loop iterations after which the liveness check stops passing
MaxUpdates == 3
\* most threads the hosting process runs besides the agent's two
MaxOtherThreads == 1

\* tokens a configured prefix is made of
Alphabet == {"a", "/"}

\* reason codes the broker may report in CONNACK (0 = success)
ReasonCodes == {0, 1, 5}

VARIABLES
    args,                    \* the parsed command line of main()
    pc,                      \* position of the main thread
    topic_prefix,            \* self.topic_prefix
    discovery_topic_prefix,  \* self.discovery_topic_prefix
    handler,                 \* TRUE once signal.signal(SIGINT, ...) has run
    will,                    \* the last will registered on the client
    counter,                 \* self.counter
    conn,                    \* state of the broker connection
    net,                     \* the paho network thread: none / alive / dead
    other_threads,           \* threads of the process that are neither of the two
    trace,                   \* the calls made so far, in order
    exit_code                \* -1 while the process runs

vars == <<args, pc, topic_prefix, discovery_topic_prefix, handler, will,
          counter, conn, net, other_threads, trace, exit_code>>

\* what the constructor writes and nothing else writes
config == <<args, topic_prefix, discovery_topic_prefix, handler, will>>

\* ------------------------------------------------------------ strings
RECURSIVE StringsUpTo(_)
StringsUpTo(n) ==
    IF n = 0 THEN {<<>>}
    ELSE LET shorter == StringsUpTo(n - 1)
         IN  shorter \cup {Append(s, c) : s \in {t \in shorter : Len(t) = n - 1},
                                          c \in Alphabet}

Prefixes == StringsUpTo(MaxPrefixLen)

EndsWithSlash(s) == Len(s) > 0 /\ s[Len(s)] = "/"

DigitChars == <<"0", "1", "2", "3", "4", "5", "6", "7", "8", "9">>

\* str(n) of a non-negative integer
RECURSIVE DecStr(_)
DecStr(n) ==
    IF n < 10 THEN <<DigitChars[n + 1]>>
    ELSE DecStr(n \div 10) \o <<DigitChars[(n % 10) + 1]>>

\* a prefix with every trailing slash removed
StripSlash_All(s) ==
    LET RECURSIVE strip(_)
        strip(t) == IF EndsWithSlash(t) THEN strip(SubSeq(t, 1, Len(t) - 1)) ELSE t
    IN  strip(s)

\* the constructor's treatment of a prefix: if p.endswith('/'): p[:-1]
StripSlash(s) ==
    IF EndsWithSlash(s) THEN SubSeq(s, 1, Len(s) - 1) ELSE s

\* f'{prefix}/status'
StatusTopic(prefix) == prefix \o <<"/", "status">>

Online == <<"online">>
Offline == <<"offline">>
Goodbye == <<"goodbye">>
\* f'update:{counter}'
Update(n) == <<"update:">> \o DecStr(n)

\* ------------------------------------------------------------- events
Pub(topic, payload, qos, retain) == <<"publish", topic, payload, qos, retain>>
IsPub(e) == e[1] = "publish"
IsPubOf(e, payload) == IsPub(e) /\ e[3] = payload
IsUpdate(e) == IsPub(e) /\ e[3][1] = "update:"

Count(s, Test(_)) == Len(SelectSeq(s, Test))
Indices(s, Test(_)) == {i \in 1..Len(s) : Test(s[i])}

IsOnlineEv(e) == IsPubOf(e, Online)
IsGoodbyeEv(e) == IsPubOf(e, Goodbye)
IsSigint(e) == e[1] = "sigint"
IsSlept(e) == e[1] = "slept"
IsOnConnect(e) == e[1] = "on_connect"
IsOnDisconnect(e) == e[1] = "on_disconnect"
IsDisconnect(e) == e[1] = "disconnect"
IsDiscovery(e) == e[1] = "publish_discovery"
IsRemoveDiscovery(e) == e[1] = "remove_discovery"
IsVersionShown(e) == e[1] = "print_version"

\* ------------------------------------------------------------ threads
\* threading.active_count(): every live thread of the process
active_count_NetOnly == 1 + (IF net = "alive" THEN 1 ELSE 0)

active_count == 1 + (IF net = "alive" THEN 1 ELSE 0) + other_threads

Running == pc \notin {"cli", "main", "exited"}

\* --------------------------------------------------------------- Init
InitCommon ==
    /\ args \in [version : BOOLEAN,
                 topic_prefix : Prefixes,
                 discovery_topic_prefix : Prefixes]
    /\ pc = "cli"
    /\ topic_prefix = <<>>
    /\ discovery_topic_prefix = <<>>
    /\ handler = FALSE
    /\ will = <<>>
    /\ counter = 0
    /\ conn = "none"
    /\ net = "none"
    /\ trace = <<>>
    /\ exit_code = -1

Init == InitCommon /\ other_threads = 0

\* the agent inside a process that runs other threads as well
InitEmbedded == InitCommon /\ other_threads \in 0..MaxOtherThreads

\* ------------------------------------------------------------ actions
\* version_callback(value), run eagerly while the options are parsed:
\* if value: print the version and raise typer.Exit(); else main's body runs
version_callback_NoExit ==
    /\ pc = "cli"
    /\ trace' = IF args.version THEN Append(trace, <<"print_version">>) ELSE trace
    /\ pc' = "main"
    /\ UNCHANGED <<config, counter, conn, net, other_threads, exit_code>>

version_callback ==
    /\ pc = "cli"
    /\ IF args.version
       THEN /\ trace' = Append(trace, <<"print_version">>)
            /\ pc' = "exited"
            /\ exit_code' = 0
       ELSE /\ pc' = "main"
            /\ UNCHANGED <<trace, exit_code>>
    /\ UNCHANGED <<config, counter, conn, net, other_threads>>

\* main() builds the MqttClient: MqttClient.__init__
Construct_WillRawPrefix ==
    /\ pc = "main"
    /\ discovery_topic_prefix' = StripSlash(args.discovery_topic_prefix)
    /\ topic_prefix' = StripSlash(args.topic_prefix)
    /\ handler' = TRUE
    /\ will' = <<Pub(StatusTopic(args.topic_prefix), Offline, 0, TRUE)>>
    /\ counter' = 0
    /\ pc' = "connect"
    /\ UNCHANGED <<args, conn, net, other_threads, trace, exit_code>>

Construct ==
    /\ pc = "main"
    /\ discovery_topic_prefix' = StripSlash(args.discovery_topic_prefix)
    /\ topic_prefix' = StripSlash(args.topic_prefix)
    /\ handler' = TRUE
    /\ will' = <<Pub(StatusTopic(topic_prefix'), Offline, 0, TRUE)>>
    /\ counter' = 0
    /\ pc' = "connect"
    /\ UNCHANGED <<args, conn, net, other_threads, trace, exit_code>>

\* client.connect(host, port, 60): returns once the CONNECT packet is sent,
\* or raises when the connection cannot be opened (uncaught: exit status 1)
Connect_Swallow(ok) ==
    /\ pc = "connect"
    /\ conn' = IF ok THEN "connecting" ELSE "failed"
    /\ pc' = "loop_start"
    /\ UNCHANGED <<config, counter, net, other_threads, trace, exit_code>>

Connect(ok) ==
    /\ pc = "connect"
    /\ IF ok
       THEN /\ conn' = "connecting"
            /\ pc' = "loop_start"
            /\ UNCHANGED exit_code
       ELSE /\ conn' = "failed"
            /\ pc' = "exited"
            /\ exit_code' = 1
    /\ UNCHANGED <<config, counter, net, other_threads, trace>>

\* client.loop_start(): the network thread starts
LoopStart ==
    /\ pc = "loop_start"
    /\ net' = "alive"
    /\ pc' = "check"
    /\ UNCHANGED <<config, counter, conn, other_threads, trace, exit_code>>

\* the head of the while loop: if threading.active_count() == 1: sys.exit(1)
RunCheck_NoExit ==
    /\ pc = "check"
    /\ counter < MaxUpdates
    /\ pc' = "update"
    /\ UNCHANGED <<config, counter, conn, net, other_threads, trace, exit_code>>

RunCheck ==
    /\ pc = "check"
    /\ IF active_count = 1
       THEN /\ pc' = "exited"
            /\ exit_code' = 1
       ELSE /\ counter < MaxUpdates
            /\ pc' = "update"
            /\ UNCHANGED exit_code
    /\ UNCHANGED <<config, counter, conn, net, other_threads, trace>>

\* regular_update(): counter += 1, then publish update:{counter}
regular_update_StaleCounter ==
    /\ counter' = counter + 1
    /\ trace' = Append(trace, Pub(StatusTopic(topic_prefix), Update(counter), 0, TRUE))

regular_update_Twice ==
    /\ counter' = counter + 1
    /\ trace' = trace \o <<Pub(StatusTopic(topic_prefix), Update(counter'), 0, TRUE),
                           Pub(StatusTopic(topic_prefix), Update(counter'), 0, TRUE)>>

regular_update ==
    /\ counter' = counter + 1
    /\ trace' = Append(trace, Pub(StatusTopic(topic_prefix), Update(counter'), 0, TRUE))

\* the loop body up to the sleep: self.regular_update(), then time.sleep(...)
RunUpdate ==
    /\ pc = "update"
    /\ regular_update
    /\ pc' = "sleep"
    /\ UNCHANGED <<config, conn, net, other_threads, exit_code>>

\* time.sleep(self.update_interval) returns; back to the head of the loop
RunWake ==
    /\ pc = "sleep"
    /\ trace' = Append(trace, <<"slept">>)
    /\ pc' = "check"
    /\ UNCHANGED <<config, counter, conn, net, other_threads, exit_code>>

\* publish_discovery(): a stub, one log line; the calls it adds to the trace
publish_discovery_Publishes ==
    <<<<"publish_discovery">>,
      Pub(discovery_topic_prefix \o <<"/", "config">>, <<"discovery">>, 0, TRUE)>>

publish_discovery == <<<<"publish_discovery">>>>

\* remove_discovery(): a stub, one log line; nothing calls it
remove_discovery == <<<<"remove_discovery">>>>

\* on_connect(rc), called on the network thread when CONNACK arrives.
\* sys.exit(1) there raises SystemExit on that thread: the thread ends.
on_connect(rc) ==
    IF rc # 0
    THEN /\ trace' = Append(trace, <<"on_connect", rc>>)
         /\ conn' = "refused"
         /\ net' = "dead"
    ELSE /\ trace' = trace \o <<<<"on_connect", rc>>,
                                Pub(StatusTopic(topic_prefix), Online, 0, TRUE)>>
                           \o publish_discovery
         /\ conn' = "connected"
         /\ UNCHANGED net

OnConnect_ResetCounter(rc) ==
    /\ Running
    /\ net = "alive"
    /\ conn = "connecting"
    /\ on_connect(rc)
    /\ counter' = 0
    /\ UNCHANGED <<config, pc, other_threads, exit_code>>

OnConnect_ExitsProcess(rc) ==
    /\ Running
    /\ net = "alive"
    /\ conn = "connecting"
    /\ on_connect(rc)
    /\ IF rc # 0
       THEN pc' = "exited" /\ exit_code' = 1
       ELSE UNCHANGED <<pc, exit_code>>
    /\ UNCHANGED <<config, counter, other_threads>>

OnConnect(rc) ==
    /\ Running
    /\ net = "alive"
    /\ conn = "connecting"
    /\ on_connect(rc)
    /\ UNCHANGED <<config, pc, counter, other_threads, exit_code>>

\* on_disconnect(rc), called on the network thread when the connection
\* is gone: client.loop_stop() ends the network thread
on_disconnect_KeepLoop(rc) ==
    /\ trace' = Append(trace, <<"on_disconnect", rc>>)
    /\ conn' = "lost"
    /\ UNCHANGED net

on_disconnect(rc) ==
    /\ trace' = trace \o <<<<"on_disconnect", rc>>, <<"loop_stop">>>>
    /\ conn' = "lost"
    /\ net' = "dead"

OnDisconnect(rc) ==
    /\ Running
    /\ net = "alive"
    /\ conn \in {"connecting", "connected"}
    /\ on_disconnect(rc)
    /\ UNCHANGED <<config, pc, counter, other_threads, exit_code>>

\* signal_handler(sig, frame): runs on the main thread wherever it is,
\* publishes goodbye, disconnects and raises SystemExit(0)
signal_handler_NoExit ==
    /\ handler
    /\ Running
    /\ Count(trace, IsSigint) = 0
    /\ trace' = trace \o <<<<"sigint">>,
                           Pub(StatusTopic(topic_prefix), Goodbye, 0, TRUE),
                           <<"disconnect">>>>
    /\ conn' = IF conn \in {"connecting", "connected"} THEN "disconnecting" ELSE conn
    /\ UNCHANGED <<config, pc, counter, net, other_threads, exit_code>>

signal_handler_NotRetained ==
    /\ handler
    /\ Running
    /\ trace' = trace \o <<<<"sigint">>,
                           Pub(StatusTopic(topic_prefix), Goodbye, 0, FALSE),
                           <<"disconnect">>>>
    /\ conn' = IF conn \in {"connecting", "connected"} THEN "disconnecting" ELSE conn
    /\ pc' = "exited"
    /\ exit_code' = 0
    /\ UNCHANGED <<config, counter, net, other_threads>>

signal_handler ==
    /\ handler
    /\ Running
    /\ trace' = trace \o <<<<"sigint">>,
                           Pub(StatusTopic(topic_prefix), Goodbye, 0, TRUE),
                           <<"disconnect">>>>
    /\ conn' = IF conn \in {"connecting", "connected"} THEN "disconnecting" ELSE conn
    /\ pc' = "exited"
    /\ exit_code' = 0
    /\ UNCHANGED <<config, counter, net, other_threads>>

\* ---------------------------------------------------------------- Next
Next ==
    \/ version_callback
    \/ Construct
    \/ \E ok \in BOOLEAN : Connect(ok)
    \/ LoopStart
    \/ RunCheck
    \/ RunUpdate
    \/ RunWake
    \/ \E rc \in ReasonCodes : OnConnect(rc)
    \/ \E rc \in ReasonCodes : OnDisconnect(rc)
    \/ signal_handler

Spec == Init /\ [][Next]_vars

\* a thread of the hosting process ends; threading.active_count() drops
OtherThreadEnds ==
    /\ pc # "exited"
    /\ other_threads > 0
    /\ other_threads' = other_threads - 1
    /\ UNCHANGED <<config, pc, counter, conn, net, trace, exit_code>>

NextEmbedded == Next \/ OtherThreadEnds

SpecEmbedded == InitEmbedded /\ [][NextEmbedded]_vars

\* the main thread keeps running: each step of the loop is eventually taken
FairSpec == Spec /\ WF_vars(RunCheck) /\ WF_vars(RunUpdate) /\ WF_vars(RunWake)


\* ------------------------------------------------- observations of trace
Interrupted == Count(trace, IsSigint) > 0
ConnectedOk == \E i \in Indices(trace, IsOnConnect) : trace[i][2] = 0
ConnectRefused == \E i \in Indices(trace, IsOnConnect) : trace[i][2] # 0
Disconnected == Count(trace, IsOnDisconnect) > 0
Updates == SelectSeq(trace, IsUpdate)
Constructed == handler

\* what the broker retains on the status topic once it has received every
\* publish of the trace: the payload of the last retained one
IsRetainedPub(e) == IsPub(e) /\ e[5]
RetainedValue ==
    LET kept == SelectSeq(trace, IsRetainedPub)
    IN  IF Len(kept) = 0 THEN <<>> ELSE kept[Len(kept)][3]

\* ------------------------------------------------------------- claims

\* C1 (as stated): whenever on_connect has run with rc = 0, exactly one
\* online publish has been issued and every update:N publish comes after it.
C1_OnlineBeforeUpdates ==
    ConnectedOk =>
        /\ Count(trace, IsOnlineEv) = 1
        /\ \A i \in Indices(trace, IsUpdate) :
               \E j \in 1..(i - 1) : IsOnlineEv(trace[j])

\* C2: once SIGINT has been received the trace ends with exactly: goodbye
\* published, then disconnect; the process has exited with status 0; there
\* is one goodbye in all, and nothing (so no update) follows.
C2_InterruptShutdown ==
    /\ Count(trace, IsGoodbyeEv) = Count(trace, IsSigint)
    /\ Count(trace, IsDisconnect) = Count(trace, IsSigint)
    /\ \A i \in Indices(trace, IsSigint) :
           /\ Len(trace) = i + 2
           /\ IsGoodbyeEv(trace[i + 1])
           /\ IsDisconnect(trace[i + 2])
           /\ Count(trace, IsGoodbyeEv) = 1
           /\ pc = "exited"
           /\ exit_code = 0

\* C2 witness: an interrupt was handled after at least one update.
C2_Witness == Interrupted /\ counter >= 1 /\ exit_code = 0

\* C3 (as stated): once on_connect has run with rc # 0, no online and no
\* update publish is in the trace, and a terminated process has status 1.
C3_RefusedConnectSilent ==
    ConnectRefused =>
        /\ Count(trace, IsOnlineEv) = 0
        /\ Count(trace, IsUpdate) = 0
        /\ (pc = "exited" => exit_code = 1)

\* C4: the counter is 0 until the loop runs, always equals the number of
\* update publishes, the Nth of which is update:N, retained, on
\* {prefix}/status; and each step leaves it alone or adds exactly 1.
C4_CounterInv ==
    /\ (pc \in {"cli", "main", "connect", "loop_start"} => counter = 0)
    /\ Len(Updates) = counter
    /\ \A k \in 1..Len(Updates) :
           Updates[k] = Pub(StatusTopic(topic_prefix), Update(k), 0, TRUE)

C4_NthUpdate ==
    /\ []C4_CounterInv
    /\ [][counter' = counter \/ counter' = counter + 1]_vars

\* C4 witness: two updates have been published.
C4_Witness == counter >= 2 /\ Len(Updates) >= 2

\* C5 (as stated): goodbye is published non-retained, so after an interrupt
\* shutdown the retained value of the status topic is not goodbye.
C5_GoodbyeNotRetained ==
    /\ \A i \in Indices(trace, IsGoodbyeEv) : ~trace[i][5]
    /\ (Interrupted /\ exit_code = 0 => RetainedValue # Goodbye)

\* C5 (amended): goodbye is published with QoS 0 and retained, as online,
\* update:N and the offline last will are; after an interrupt shutdown
\* the retained value of the status topic is goodbye.
C5_GoodbyeRetained ==
    /\ \A i \in Indices(trace, IsPub) : trace[i][4] = 0 /\ trace[i][5]
    /\ \A i \in 1..Len(will) : will[i][4] = 0 /\ will[i][5]
    /\ (Interrupted /\ exit_code = 0 => RetainedValue = Goodbye)

\* C5 witness: a clean interrupt shutdown after online was published.
C5_Witness == Interrupted /\ exit_code = 0 /\ Count(trace, IsOnlineEv) = 1

\* C6 (as stated): the stored prefixes are the configured ones with every
\* trailing slash removed, never end in a slash, and are fixed points of
\* the normalization.
C6_NoTrailingSlash ==
    Constructed =>
        /\ topic_prefix = StripSlash_All(args.topic_prefix)
        /\ discovery_topic_prefix = StripSlash_All(args.discovery_topic_prefix)
        /\ ~EndsWithSlash(topic_prefix)
        /\ ~EndsWithSlash(discovery_topic_prefix)
        /\ StripSlash(topic_prefix) = topic_prefix
        /\ StripSlash(discovery_topic_prefix) = discovery_topic_prefix

\* a step of the main thread other than the interrupt handler
MainStep == pc' # pc /\ Count(trace', IsSigint) = Count(trace, IsSigint)

\* C7: a liveness check that finds the network thread not alive exits with
\* status 1 and publishes nothing; one that finds it alive goes on to
\* exactly one update publish, then the sleep, then the next check; an
\* update is published only by an iteration whose check passed.
C7_LivenessCheck ==
    [][/\ MainStep /\ pc = "check" /\ net # "alive" =>
              pc' = "exited" /\ exit_code' = 1 /\ trace' = trace /\ counter' = counter
       /\ MainStep /\ pc = "check" /\ net = "alive" =>
              pc' = "update" /\ exit_code' = -1 /\ trace' = trace
       /\ MainStep /\ pc = "update" =>
              /\ pc' = "sleep"
              /\ Len(trace') = Len(trace) + 1
              /\ Count(trace', IsUpdate) = Count(trace, IsUpdate) + 1
       /\ MainStep /\ pc = "sleep" =>
              pc' = "check" /\ Count(trace', IsUpdate) = Count(trace, IsUpdate)
       /\ Count(trace', IsUpdate) # Count(trace, IsUpdate) => pc = "update"
       /\ pc' = "update" /\ pc # "update" => pc = "check" /\ net = "alive"
      ]_vars

\* C7 witness: after a passed check and an update, a later check found the
\* network thread dead and exited with status 1.
C7_Witness == exit_code = 1 /\ net = "dead" /\ counter >= 1

\* C8 (as stated): once on_disconnect has run, a terminated process has
\* exit status 1.
C8_DisconnectExitsOne ==
    Disconnected /\ pc = "exited" => exit_code = 1

\* C8 (amended): once on_disconnect has run the network thread is dead and
\* the connection is never Connected again; with a fair main loop the
\* process eventually terminates, with status 1 at a liveness check, or
\* with status 0 if an interrupt arrives before that check.
C8_DisconnectTerminates ==
    /\ [](Disconnected => net = "dead" /\ conn = "lost")
    /\ [](Disconnected /\ pc = "exited" =>
             IF Interrupted THEN exit_code = 0 ELSE exit_code = 1)
    /\ (Disconnected ~> pc = "exited")

\* C8 witness: on_disconnect ran and a later liveness check exited 1.
C8_Witness == Disconnected /\ exit_code = 1 /\ ~Interrupted

\* after k completed sleeps exactly k updates have been published
OneUpdatePerSleep ==
    \A i \in Indices(trace, IsSlept) :
        Count(SubSeq(trace, 1, i), IsUpdate) = Count(SubSeq(trace, 1, i), IsSlept)

UpdatePublished(n) ==
    \E i \in Indices(trace, IsUpdate) : trace[i][3] = Update(n)

\* C9: with a fair main loop, while the network thread is alive and no
\* interrupt has arrived, update:N is eventually published for each N up
\* to the bound; and exactly one update lies between consecutive sleeps.
C9_Heartbeat ==
    /\ []OneUpdatePerSleep
    /\ \A n \in 0..(MaxUpdates - 1) :
           (net = "alive" /\ counter = n)
               ~> (UpdatePublished(n + 1) \/ net # "alive" \/ Interrupted)

\* C9 witness: the loop has slept twice and published its third update
\* with the network thread alive and no interrupt.
C9_Witness ==
    /\ net = "alive"
    /\ ~Interrupted
    /\ Count(trace, IsSlept) >= 2
    /\ UpdatePublished(3)

\* C10: when client.connect() fails the process has exited with a failure
\* status, the network thread was never started, the loop was never
\* entered and nothing was published.
C10_ConnectFailure ==
    conn = "failed" =>
        /\ pc = "exited"
        /\ exit_code = 1
        /\ net = "none"
        /\ counter = 0
        /\ Count(trace, IsSlept) = 0
        /\ Count(trace, IsPub) = 0

\* C10 witness: the initial connection failed.
C10_Witness == conn = "failed" /\ Constructed

\* a step in which a callback or the interrupt handler has run
CallbackStep ==
    \/ Count(trace', IsOnConnect) # Count(trace, IsOnConnect)
    \/ Count(trace', IsOnDisconnect) # Count(trace, IsOnDisconnect)
    \/ Count(trace', IsSigint) # Count(trace, IsSigint)

\* C11: the counter never decreases; it changes only in the loop's update
\* step, by exactly 1, and every update step does change it; on_connect,
\* on_disconnect and signal_handler leave it as it is.
C11_CounterOwnedByLoop ==
    [][/\ counter' >= counter
       /\ counter' # counter =>
              pc = "update" /\ pc' = "sleep" /\ counter' = counter + 1
       /\ pc = "update" /\ pc' = "sleep" => counter' = counter + 1
       /\ CallbackStep => counter' = counter
      ]_vars

\* C11 witness: on_connect ran after an update had been published, and the
\* loop published another update afterwards.
C11_Witness ==
    \E i \in Indices(trace, IsOnConnect) :
        /\ \E j \in Indices(trace, IsUpdate) : j < i
        /\ \E k \in Indices(trace, IsUpdate) : k > i

\* C12: the retained offline last will is registered exactly when the agent
\* is constructed, so before any connection attempt and any publish; the
\* last will and every publish target {stored topic_prefix}/status.
C12_WillAndTopics ==
    /\ (Constructed <=> Len(will) = 1)
    /\ (conn # "none" \/ Count(trace, IsPub) > 0 => Len(will) = 1)
    /\ (Constructed => topic_prefix = StripSlash(args.topic_prefix))
    /\ \A i \in 1..Len(will) :
           will[i] = Pub(StatusTopic(topic_prefix), Offline, 0, TRUE)
    /\ \A i \in Indices(trace, IsPub) : trace[i][2] = StatusTopic(topic_prefix)

\* C12 witness: online, an update and goodbye were all published by an
\* agent whose configured prefix needed normalizing.
C12_Witness ==
    /\ EndsWithSlash(args.topic_prefix)
    /\ Count(trace, IsOnlineEv) = 1
    /\ Count(trace, IsUpdate) >= 1
    /\ Count(trace, IsGoodbyeEv) = 1

\* C13: with --version set the process only ever prints the version and
\* exits 0: the agent is not constructed, no handler is registered, no
\* connection is attempted, no thread is started, nothing is published.
C13_VersionOnly ==
    args.version =>
        /\ pc \in {"cli", "exited"}
        /\ ~handler
        /\ Len(will) = 0
        /\ conn = "none"
        /\ net = "none"
        /\ Count(trace, IsPub) = 0
        /\ (pc = "exited" =>
               exit_code = 0 /\ Len(trace) = 1 /\ Count(trace, IsVersionShown) = 1)

\* C13 witness: the process has exited on --version.
C13_Witness == args.version /\ pc = "exited" /\ exit_code = 0

SleptCount == Count(trace, IsSlept)
SigintCount == Count(trace, IsSigint)

\* C14 (as stated): a sleep that has started is left only by running its
\* full interval: the loop goes from sleeping to the next liveness check.
C14_SleepNeverCut ==
    [][pc = "sleep" /\ pc' # "sleep" =>
           pc' = "check" /\ SleptCount' = SleptCount + 1]_vars

\* C14 (amended): a sleep that has started is left either by running its
\* full interval or by an interrupt: SIGINT during the sleep runs
\* signal_handler at once and the process exits 0 with the sleep
\* unfinished; the callbacks of the network thread never end a sleep.
C14_SleepCutOnlyByInterrupt ==
    [][/\ pc = "sleep" /\ pc' # "sleep" =>
              \/ pc' = "check" /\ SleptCount' = SleptCount + 1
                               /\ SigintCount' = SigintCount
              \/ pc' = "exited" /\ SigintCount' = SigintCount + 1
       /\ pc = "sleep" /\ SigintCount' # SigintCount =>
              pc' = "exited" /\ exit_code' = 0 /\ SleptCount' = SleptCount
       /\ pc = "sleep" /\ CallbackStep /\ SigintCount' = SigintCount =>
              pc' = "sleep"
      ]_vars

\* C14 witness: the interrupt arrived right after an update publish, that
\* is while the loop was in the sleep that follows it, and the process
\* exited 0 with that sleep unfinished.
C14_Witness ==
    /\ exit_code = 0
    /\ \E i \in Indices(trace, IsSigint) :
           /\ i > 1
           /\ IsUpdate(trace[i - 1])
           /\ Count(SubSeq(trace, 1, i), IsSlept) < Count(SubSeq(trace, 1, i), IsUpdate)

\* the events after which the network thread is dead
IsNetDeath(e) == IsOnDisconnect(e) \/ (IsOnConnect(e) /\ e[2] # 0)

\* C15: the liveness check exits (status 1) exactly when the main thread
\* is the only thread of the process; with the network thread dead and
\* another thread alive it passes and the loop goes on to regular_update;
\* past the connect, exit status 1 arises only from such a check.
C15_CoarseLivenessCheck ==
    [][/\ MainStep /\ pc = "check" /\ net # "alive" /\ other_threads > 0 =>
              pc' = "update" /\ exit_code' = -1
       /\ MainStep /\ pc = "check" /\ net # "alive" /\ other_threads = 0 =>
              pc' = "exited" /\ exit_code' = 1
       /\ MainStep /\ pc = "check" /\ net = "alive" =>
              pc' = "update" /\ exit_code' = -1
       /\ exit_code' = 1 /\ exit_code # 1 /\ net # "none" =>
              pc = "check" /\ net = "dead" /\ other_threads = 0
      ]_vars

\* C15 witness: the network thread died, the loop then finished a sleep,
\* passed the next check and published another update.
C15_Witness ==
    /\ net = "dead"
    /\ \E i \in Indices(trace, IsNetDeath) :
           \E j \in Indices(trace, IsSlept) :
               \E k \in Indices(trace, IsUpdate) : i < j /\ j < k

\* C16: publish_discovery is called once per successful on_connect, right
\* after its online publish; it publishes nothing (every publish is online,
\* an update or goodbye); remove_discovery is never called.
C16_DiscoveryStub ==
    /\ \A i \in Indices(trace, IsOnConnect) :
           trace[i][2] = 0 =>
               /\ Len(trace) >= i + 2
               /\ IsOnlineEv(trace[i + 1])
               /\ IsDiscovery(trace[i + 2])
    /\ \A i \in Indices(trace, IsDiscovery) :
           /\ i >= 3
           /\ IsOnlineEv(trace[i - 1])
           /\ IsOnConnect(trace[i - 2])
           /\ trace[i - 2][2] = 0
    /\ Count(trace, IsRemoveDiscovery) = 0
    /\ Count(trace, IsOnlineEv) = Count(trace, IsDiscovery)
    /\ Count(trace, IsPub) =
           Count(trace, IsOnlineEv) + Count(trace, IsUpdate) + Count(trace, IsGoodbyeEv)

\* C16 witness: a successful connect followed by an interrupt shutdown.
C16_Witness == Count(trace, IsDiscovery) = 1 /\ Interrupted /\ exit_code = 0

\* C17: on_connect with rc # 0 ends the network thread and leaves the main
\* thread where it is, the process running; afterwards exit status 1
\* arises only at a liveness check, and a process that has terminated did
\* so with status 1, or, if an interrupt came first, with goodbye
\* published and status 0.
C17_RefusedConnectWindow ==
    /\ [][~ConnectRefused /\ ConnectRefused' =>
              pc' = pc /\ pc' # "exited" /\ exit_code' = -1 /\ net' = "dead"]_vars
    /\ [][ConnectRefused /\ exit_code' = 1 /\ exit_code # 1 => pc = "check"]_vars
    /\ [](ConnectRefused /\ pc = "exited" =>
             IF Interrupted
             THEN exit_code = 0 /\ Count(trace, IsGoodbyeEv) = 1
             ELSE exit_code = 1)

\* C17 witness: the connect was refused while the loop was past its check,
\* and an interrupt before the next check ended the process with status 0.
C17_Witness ==
    /\ ConnectRefused
    /\ Interrupted
    /\ exit_code = 0
    /\ Count(trace, IsGoodbyeEv) = 1

=============================================================================
